---- MODULE Spec2Model ----
(***************************************************************************)
(* Contact-form service: POST /api/mensajes and GET /api/mensajes in the   *)
(* document-store variant (src/backend/server.js, Express + Mongoose) and  *)
(* the tabular variant (src/unnamed/part_000, Express + mysql2).           *)
(***************************************************************************)
EXTENDS Integers, Sequences, FiniteSets, TLC

\* ------------------------------------------------------------------ bounds
\* Submissions that may be issued to the Storage Backend in one behaviour.
MaxInserts == 2
\* Last reading of the clock (Date.now() / CURRENT_TIMESTAMP); it starts at 1.
MaxTime == 2
\* Concurrent requests in flight.
Slots == {1, 2}

\* ------------------------------------------------------- program constants
\* maxlength of nombre in MensajeSchema.
NombreMaxLength == 100
\* VARCHAR(100) of the columns nombre and email of mensajes_nuevos.
VarcharLen == 100

\* --------------------------------------------------------------- JS values
\* A JSON / query-string value as the handlers see it.
Undefined == [t |-> "undefined"]
Null == [t |-> "null"]
Num(n) == [t |-> "number", n |-> n]
Obj == [t |-> "object"]
Str(s) == [t |-> "string", s |-> s]

IsString(v) == v.t = "string"
IsNullish(v) == v.t \in {"undefined", "null"}
\* JS truthiness: undefined, null, 0 and "" are falsy; objects are truthy.
Truthy(v) ==
  CASE v.t = "string" -> v.s # <<>>
    [] v.t = "number" -> v.n # 0
    [] v.t = "object" -> TRUE
    [] OTHER -> FALSE

\* Strings are sequences of characters; " " stands for white space.
IsSpace(c) == c = " "

RECURSIVE TrimStart(_)
TrimStart(s) ==
  IF s # <<>> /\ IsSpace(Head(s)) THEN TrimStart(Tail(s)) ELSE s

RECURSIVE TrimEnd(_)
TrimEnd(s) ==
  IF s # <<>> /\ IsSpace(s[Len(s)]) THEN TrimEnd(SubSeq(s, 1, Len(s) - 1)) ELSE s

\* String.prototype.trim
Trim(s) == TrimEnd(TrimStart(s))

\* String.prototype.toLowerCase over the alphabet {" ", "a", "A", "b"}.
ToLowerCase(s) == [i \in 1..Len(s) |-> IF s[i] = "A" THEN "a" ELSE s[i]]

\* A string of n letters.
Long(n) == [i \in 1..n |-> "b"]

\* ------------------------------------------------------------------ inputs
\* Field values of a request body: absent, null, non-strings, blank strings,
\* a string to trim and lowercase, strings at and over the length limits.
Strings ==
  { <<>>, <<" ">>, <<" ", "A", " ", "b", " ">>, Long(NombreMaxLength),
    Long(NombreMaxLength + 1) }
FieldValues == {Undefined, Null, Num(0), Num(5), Obj} \cup {Str(s) : s \in Strings}
Body(n, e, m) == [nombre |-> n, email |-> e, mensaje |-> m]
AllBodies == {Body(n, e, m) : n \in FieldValues, e \in FieldValues, m \in FieldValues}
\* The bodies of the concurrent specification: a valid one and a blank one.
GoodStr == Str(<<" ", "A", " ", "b", " ">>)
CoreBodies ==
  { Body(GoodStr, GoodStr, GoodStr),
    Body(Str(<<" ">>), GoodStr, GoodStr) }

\* process.env.ADMIN_SECRET: unset, empty, or a key.
Key == <<"b", "A">>
Secrets == {Undefined, Str(<<>>), Str(Key)}
\* req.query.clave: absent, empty, the key, the key plus a space.
Claves == {Undefined, Str(<<>>), Str(Key), Str(Key \o <<" ">>)}

\* --------------------------------------------------------------- validation
\* v?.trim() used as a condition: "throw" when v is neither nullish nor a
\* string (v.trim is not a function), else whether the trimmed text is empty.
OptionalTrim(v) ==
  IF IsNullish(v) THEN "falsy"
  ELSE IF ~IsString(v) THEN "throw"
  ELSE IF Trim(v.s) = <<>> THEN "falsy" ELSE "truthy"

\* if (!nombre?.trim() || !email?.trim() || !mensaje?.trim()), left to right
\* with short circuit: "reject", "throw" (TypeError) or "ok".
DocValidation(b) ==
  LET n == OptionalTrim(b.nombre)
      e == OptionalTrim(b.email)
      m == OptionalTrim(b.mensaje)
  IN  IF n # "truthy" THEN (IF n = "throw" THEN "throw" ELSE "reject")
      ELSE IF e # "truthy" THEN (IF e = "throw" THEN "throw" ELSE "reject")
      ELSE IF m # "truthy" THEN (IF m = "throw" THEN "throw" ELSE "reject")
      ELSE "ok"

\* validarDatos of the tabular variant: the && chain, left to right; a truthy
\* non-string reaches .trim() and throws.
validarDatos(nombre, email, mensaje) ==
  IF ~Truthy(nombre) \/ ~Truthy(email) \/ ~Truthy(mensaje) THEN "reject"
  ELSE IF ~IsString(nombre) THEN "throw"
  ELSE IF Trim(nombre.s) = <<>> THEN "reject"
  ELSE IF ~IsString(email) THEN "throw"
  ELSE IF Trim(email.s) = <<>> THEN "reject"
  ELSE IF ~IsString(mensaje) THEN "throw"
  ELSE IF Trim(mensaje.s) = <<>> THEN "reject"
  ELSE "ok"

\* ---------------------------------------------------------------- responses
Resp(status, error, code, id, createdAt, data) ==
  [status |-> status, error |-> error, code |-> code, id |-> id,
   createdAt |-> createdAt, data |-> data]
NoResp == Resp(0, "", "", 0, 0, <<>>)

\* What the Storage Backend hands to the callback / awaited promise.
Result(ok, id, fecha, rows, err) ==
  [ok |-> ok, id |-> id, fecha |-> fecha, rows |-> rows, err |-> err]
NoResult == Result(FALSE, 0, 0, <<>>, "")

\* Details of storage errors (err.message).
ErrValidation == "Mensaje validation failed: nombre is longer than the maximum allowed length"
ErrBuffering == "Operation mensajes.insertOne() buffering timed out"
ErrNoTable == "ER_NO_SUCH_TABLE: Table mensajes_nuevos doesn't exist"
ErrTooLong == "ER_DATA_TOO_LONG: Data too long for column"
ErrConnLost == "PROTOCOL_CONNECTION_LOST"
ErrDetails == {ErrValidation, ErrBuffering, ErrNoTable, ErrTooLong, ErrConnLost}

DocValidationError ==
  Resp(400, "Todos los campos son obligatorios", "VALIDATION_ERROR", 0, 0, <<>>)
TabValidationError ==
  Resp(400, "Todos los campos son obligatorios y no pueden estar vacios.", "", 0, 0, <<>>)
\* A catch block that hands the error detail to the caller.
DocPostCatchLeaky(err) == Resp(500, err, "DATABASE_ERROR", 0, 0, <<>>)

\* The catch block of the document POST: whatever was thrown.
DocPostCatch(err) ==
  Resp(500, "No se pudo procesar la solicitud", "DATABASE_ERROR", 0, 0, <<>>)

\* The catch block of the document GET.
DocGetCatch(err) == Resp(500, "Error en la consulta", "DATABASE_ERROR", 0, 0, <<>>)
\* Express' default error handler, for an exception thrown by a handler that
\* has no try/catch (tabular variant).
ExpressDefaultError == Resp(500, "Internal Server Error", "", 0, 0, <<>>)
Forbidden(v) ==
  IF v = "document" THEN Resp(403, "Autenticacion fallida", "UNAUTHORIZED", 0, 0, <<>>)
  ELSE Resp(403, "Acceso denegado. No tienes la llave.", "", 0, 0, <<>>)

\* An insert callback that reports the id the next insert will get.
TabInsertCallbackNextId(r) ==
  IF ~r.ok
  THEN Resp(500, "Error interno del servidor. No se pudo guardar el mensaje.", "", 0, 0, <<>>)
  ELSE Resp(201, "", "", r.id + 1, 0, <<>>)

\* An insert callback that ignores err.
TabInsertCallbackNoErr(r) == Resp(201, "", "", r.id, 0, <<>>)

\* The callback of db.query(INSERT ...): (err, result) => ...
TabInsertCallback(r) ==
  IF ~r.ok
  THEN Resp(500, "Error interno del servidor. No se pudo guardar el mensaje.", "", 0, 0, <<>>)
  ELSE Resp(201, "", "", r.id, 0, <<>>)

\* After await nuevoMensaje.save(): 201 with _id and fecha, or the catch block.
DocSaveSettled(r) ==
  IF ~r.ok THEN DocPostCatch(r.err) ELSE Resp(201, "", "", r.id, r.fecha, <<>>)

TabListCallback(r) ==
  IF ~r.ok THEN Resp(500, "Error interno del servidor.", "", 0, 0, <<>>)
  ELSE Resp(200, "", "", 0, 0, r.rows)

DocFindSettled(r) ==
  IF ~r.ok THEN DocGetCatch(r.err) ELSE Resp(200, "", "", 0, 0, r.rows)

\* ------------------------------------------------------------------ storage
\* new Mensaje({nombre: nombre.trim(), ...}): the handler trims, the schema
\* setters trim nombre and email again and lowercase email; _id is generated
\* and fecha defaults to Date.now() at construction.  req is the request body
\* the document came from (history, not stored).
NuevoMensaje(b, id, now) ==
  [id |-> id,
   nombre |-> Trim(Trim(b.nombre.s)),
   email |-> ToLowerCase(Trim(Trim(b.email.s))),
   mensaje |-> Trim(b.mensaje.s),
   fecha |-> now,
   req |-> b]

\* Query parameters that are sent as received.
InsertParamsRaw(b) ==
  [id |-> 0, nombre |-> b.nombre.s, email |-> b.email.s, mensaje |-> b.mensaje.s,
   fecha |-> 0, req |-> b]

\* [nombre.trim(), email.trim(), mensaje.trim()] of the INSERT; id and fecha
\* are assigned by the table when the row is written.
InsertParams(b) ==
  [id |-> 0, nombre |-> Trim(b.nombre.s), email |-> Trim(b.email.s),
   mensaje |-> Trim(b.mensaje.s), fecha |-> 0, req |-> b]

\* A maxlength that refuses a name of exactly the limit.
SchemaValidBelow(doc) == Len(doc.nombre) < NombreMaxLength

\* Schema validation run by save(): maxlength of nombre.
SchemaValid(doc) == Len(doc.nombre) <= NombreMaxLength
\* Column constraints of mensajes_nuevos (strict SQL mode).
ColumnsValid(p) == Len(p.nombre) <= VarcharLen /\ Len(p.email) <= VarcharLen

\* ORDER BY fecha ASC.
RECURSIVE InsertByFechaAsc(_, _)
InsertByFechaAsc(r, sorted) ==
  IF sorted = <<>> THEN <<r>>
  ELSE IF r.fecha < Head(sorted).fecha THEN <<r>> \o sorted
  ELSE <<Head(sorted)>> \o InsertByFechaAsc(r, Tail(sorted))

RECURSIVE InsertByFechaDesc(_, _)
InsertByFechaDesc(r, sorted) ==
  IF sorted = <<>> THEN <<r>>
  ELSE IF r.fecha > Head(sorted).fecha THEN <<r>> \o sorted
  ELSE <<Head(sorted)>> \o InsertByFechaDesc(r, Tail(sorted))

RECURSIVE OrderByFechaAsc(_)
OrderByFechaAsc(rows) ==
  IF rows = <<>> THEN <<>>
  ELSE InsertByFechaAsc(rows[Len(rows)], OrderByFechaAsc(SubSeq(rows, 1, Len(rows) - 1)))

\* ORDER BY fecha DESC / .sort({ fecha: -1 }): rows with equal fecha keep the
\* order in which the engine scanned them.
RECURSIVE OrderByFechaDesc(_)
OrderByFechaDesc(rows) ==
  IF rows = <<>> THEN <<>>
  ELSE InsertByFechaDesc(rows[Len(rows)], OrderByFechaDesc(SubSeq(rows, 1, Len(rows) - 1)))

\* The orders in which the engine may scan n rows.
Scans(n) == {p \in [1..n -> 1..n] : \A i, j \in 1..n : p[i] = p[j] => i = j}
Scanned(rows, p) == [i \in 1..Len(rows) |-> rows[p[i]]]

\* -------------------------------------------------------------------- state
VARIABLES
  variant,   \* "document" (server.js) or "tabular" (part_000)
  secret,    \* process.env.ADMIN_SECRET
  proc,      \* "running" or "exited"
  conn,      \* "connecting", "connected" or "failed"
  table,     \* mensajes_nuevos: "absent", "creating", "present"; "auto" for collections
  clock,     \* Date.now() / CURRENT_TIMESTAMP
  issued,    \* inserts handed to the Storage Backend so far
  store,     \* the persisted Submissions, in the order they were written
  slots,     \* the requests in flight
  n201,      \* history: POST requests answered 201
  latest,    \* history: id of the last POST answered 201 with no insert written since
  client     \* the page in the browser: the contact form and its submit handler

vars == <<client, variant, secret, proc, conn, table, clock, issued, store, slots, n201, latest>>

EmptyBody == Body(Undefined, Undefined, Undefined)
NoOp == [id |-> 0, nombre |-> <<>>, email |-> <<>>, mensaje |-> <<>>, fecha |-> 0,
         req |-> EmptyBody]

\* pc: "idle", "wait" (storage operation pending), "ready" (its result is in),
\* "done" (answered).  calls counts the storage operations the handler issued,
\* booted tells whether startup had completed when it issued one, after is
\* the value of latest the GET handler saw.
IdleSlot ==
  [pc |-> "idle", kind |-> "none", body |-> EmptyBody, clave |-> Undefined,
   op |-> NoOp, result |-> NoResult, resp |-> NoResp, calls |-> 0,
   booted |-> FALSE, after |-> 0]

\* The startup sequence has completed: connected and, for the tabular
\* variant, the CREATE TABLE IF NOT EXISTS has been answered.
StartupComplete ==
  conn = "connected" /\ (variant = "tabular" => table \in {"present", "failed"})

\* The form fields as obtenerDatosFormulario reads them (input values are
\* always strings).
Datos(n, e, m) == [nombre |-> n, email |-> e, mensaje |-> m]
EmptyDatos == Datos(<<>>, <<>>, <<>>)
NoBoton == [present |-> FALSE, disabled |-> FALSE, innerText |-> ""]
NoRespuesta == [status |-> 0, body |-> [t |-> "none", error |-> ""]]
NoShown == [tipo |-> "none", errores |-> <<>>, texto |-> ""]

\* The page before DOMContentLoaded.  pc: "unloaded", "noform", "idle",
\* "fetching" (await fetch), "parsing" (await respuesta.json()), "finished".
\* html is the text the submit button was loaded with (history), fetched
\* tells whether this invocation of the handler called fetch, outcome is
\* "returned" or "threw" once the handler has finished.
Unloaded ==
  [pc |-> "unloaded", version |-> "none", campos |-> EmptyDatos,
   datos |-> EmptyDatos, boton |-> NoBoton, html |-> "", textoOriginal |-> "",
   respuesta |-> NoRespuesta, fetched |-> FALSE, shown |-> NoShown,
   outcome |-> "none"]

\* The state after the module has been evaluated: without MONGO_URI the
\* document variant has exited; otherwise connect() is pending and
\* app.listen() has been called.
Init ==
  /\ variant \in {"document", "tabular"}
  /\ secret \in Secrets
  /\ proc \in (IF variant = "document" THEN {"running", "exited"} ELSE {"running"})
  /\ conn = "connecting"
  /\ table = (IF variant = "document" THEN "auto" ELSE "absent")
  /\ clock = 1
  /\ issued = 0
  /\ store = <<>>
  /\ slots = [s \in Slots |-> IdleSlot]
  /\ n201 = 0
  /\ latest = 0
  /\ client = Unloaded

\* ------------------------------------------------------------------ startup
Running == proc = "running"
TableUsable == table \in {"auto", "present"}

\* mongoose.connect().then(...) / db.connect callback without err; the
\* tabular variant then calls initializeDatabase().
ConnectOk ==
  /\ Running /\ conn = "connecting"
  /\ conn' = "connected"
  /\ table' = (IF variant = "tabular" THEN "creating" ELSE table)
  /\ UNCHANGED <<client, variant, secret, proc, clock, issued, store, slots, n201, latest>>

\* The connection attempt fails: .catch() logs and goes on (document),
\* process.exit(1) (tabular).
ConnectFail ==
  /\ Running /\ conn = "connecting"
  /\ conn' = "failed"
  /\ proc' = (IF variant = "tabular" THEN "exited" ELSE proc)
  /\ UNCHANGED <<client, variant, secret, table, clock, issued, store, slots, n201, latest>>

\* The callback of CREATE TABLE IF NOT EXISTS, without err.
CreateTableOk ==
  /\ Running /\ table = "creating"
  /\ table' = "present"
  /\ UNCHANGED <<client, variant, secret, proc, conn, clock, issued, store, slots, n201, latest>>

\* The callback of CREATE TABLE IF NOT EXISTS, with err: logged only.
CreateTableFail ==
  /\ Running /\ table = "creating"
  /\ table' = "failed"
  /\ UNCHANGED <<client, variant, secret, proc, conn, clock, issued, store, slots, n201, latest>>

\* Time passes.
Tick ==
  /\ Running /\ clock < MaxTime
  /\ clock' = clock + 1
  /\ UNCHANGED <<client, variant, secret, proc, conn, table, issued, store, slots, n201, latest>>

\* --------------------------------------------------------- POST /api/mensajes
Answered(s, kind, b, r) ==
  [IdleSlot EXCEPT !.pc = "done", !.kind = kind, !.body = b, !.resp = r]

\* app.post("/api/mensajes") of server.js up to the await of save().
DocPostHandle(s, b) ==
  LET v == DocValidation(b) IN
  /\ variant = "document"
  /\ IF v = "reject"
     THEN /\ slots' = [slots EXCEPT ![s] = Answered(s, "POST", b, DocValidationError)]
          /\ UNCHANGED issued
     ELSE IF v = "throw"
     THEN /\ slots' = [slots EXCEPT ![s] = Answered(s, "POST", b, DocPostCatch("TypeError"))]
          /\ UNCHANGED issued
     ELSE /\ issued < MaxInserts
          /\ slots' = [slots EXCEPT ![s] =
               [IdleSlot EXCEPT !.pc = "wait", !.kind = "POST", !.body = b,
                                !.op = NuevoMensaje(b, issued + 1, clock),
                                !.calls = 1, !.booted = StartupComplete]]
          /\ issued' = issued + 1

\* app.post("/api/mensajes") of part_000 up to db.query(INSERT ...).
TabPostHandle(s, b) ==
  LET v == validarDatos(b.nombre, b.email, b.mensaje) IN
  /\ variant = "tabular"
  /\ IF v = "reject"
     THEN /\ slots' = [slots EXCEPT ![s] = Answered(s, "POST", b, TabValidationError)]
          /\ UNCHANGED issued
     ELSE IF v = "throw"
     THEN /\ slots' = [slots EXCEPT ![s] = Answered(s, "POST", b, ExpressDefaultError)]
          /\ UNCHANGED issued
     ELSE /\ issued < MaxInserts
          /\ slots' = [slots EXCEPT ![s] =
               [IdleSlot EXCEPT !.pc = "wait", !.kind = "POST", !.body = b,
                                !.op = InsertParams(b),
                                !.calls = 1, !.booted = StartupComplete]]
          /\ issued' = issued + 1

\* A POST request arrives and its handler runs to its first await / return.
PostHandle(s, b) ==
  /\ Running /\ slots[s].pc = "idle"
  /\ (DocPostHandle(s, b) \/ TabPostHandle(s, b))
  /\ UNCHANGED <<client, variant, secret, proc, conn, table, clock, store, n201, latest>>

\* A Storage Backend that gives every row the same id.
WrittenSameId(op) ==
  IF variant = "document" THEN [op EXCEPT !.id = 1]
  ELSE [op EXCEPT !.id = 1, !.fecha = clock]

\* The row the Storage Backend writes: the document as constructed, or the
\* parameters with AUTO_INCREMENT id and DEFAULT CURRENT_TIMESTAMP.
Written(op) ==
  IF variant = "document" THEN op
  ELSE [op EXCEPT !.id = Len(store) + 1, !.fecha = clock]

\* Whether the pending insert passes the schema / column constraints.
Insertable(op) == IF variant = "document" THEN SchemaValid(op) ELSE ColumnsValid(op)

\* An insert that replaces what was stored.
InsertOkOverwrite(s) ==
  /\ Running /\ slots[s].pc = "wait" /\ slots[s].kind = "POST"
  /\ conn = "connected" /\ TableUsable /\ Insertable(slots[s].op)
  /\ LET row == Written(slots[s].op) IN
       /\ store' = <<row>>
       /\ slots' = [slots EXCEPT ![s].pc = "ready",
                                 ![s].result = Result(TRUE, row.id, row.fecha, <<>>, "")]
  /\ latest' = 0
  /\ UNCHANGED <<client, variant, secret, proc, conn, table, clock, issued, n201>>

\* The Storage Backend writes the Submission.
InsertOk(s) ==
  /\ Running /\ slots[s].pc = "wait" /\ slots[s].kind = "POST"
  /\ conn = "connected" /\ TableUsable /\ Insertable(slots[s].op)
  /\ LET row == Written(slots[s].op) IN
       /\ store' = Append(store, row)
       /\ slots' = [slots EXCEPT ![s].pc = "ready",
                                 ![s].result = Result(TRUE, row.id, row.fecha, <<>>, "")]
  /\ latest' = 0
  /\ UNCHANGED <<client, variant, secret, proc, conn, table, clock, issued, n201>>

\* The error a failing insert reports.
InsertError(op) ==
  IF variant = "document"
  THEN (IF ~SchemaValid(op) THEN ErrValidation
        ELSE IF conn # "connected" THEN ErrBuffering ELSE ErrConnLost)
  ELSE (IF ~TableUsable THEN ErrNoTable
        ELSE IF ~ColumnsValid(op) THEN ErrTooLong ELSE ErrConnLost)

\* The insert fails and nothing is written: a constraint, a missing table, a
\* lost or never established connection.  The tabular driver queues the
\* query until the connection is up.
InsertFail(s) ==
  /\ Running /\ slots[s].pc = "wait" /\ slots[s].kind = "POST"
  /\ variant = "tabular" => conn = "connected"
  /\ slots' = [slots EXCEPT ![s].pc = "ready",
                            ![s].result = Result(FALSE, 0, 0, <<>>, InsertError(slots[s].op))]
  /\ UNCHANGED <<client, variant, secret, proc, conn, table, clock, issued, store, n201, latest>>

\* The response the POST handler sends once the insert has settled.
PostSettled(r) == IF variant = "document" THEN DocSaveSettled(r) ELSE TabInsertCallback(r)

\* The handler resumes after the insert and answers.
PostCallback(s) ==
  /\ Running /\ slots[s].pc = "ready" /\ slots[s].kind = "POST"
  /\ LET r == PostSettled(slots[s].result) IN
       /\ slots' = [slots EXCEPT ![s].pc = "done", ![s].resp = r]
       /\ n201' = (IF r.status = 201 THEN n201 + 1 ELSE n201)
       /\ latest' = (IF r.status = 201 THEN r.id ELSE latest)
  /\ UNCHANGED <<client, variant, secret, proc, conn, table, clock, issued, store>>

\* ---------------------------------------------------------- GET /api/mensajes
\* const isAuthorized = clave && clave === process.env.ADMIN_SECRET
DocAuthorized(clave) == Truthy(clave) /\ clave = secret
\* if (clave !== process.env.ADMIN_SECRET) return 403
TabAuthorized(clave) == clave = secret
Authorized(clave) ==
  IF variant = "document" THEN DocAuthorized(clave) ELSE TabAuthorized(clave)

\* A GET request arrives: 403, or the listing query is issued.
GetHandle(s, clave) ==
  /\ Running /\ slots[s].pc = "idle"
  /\ slots' = [slots EXCEPT ![s] =
       IF ~Authorized(clave)
       THEN [IdleSlot EXCEPT !.pc = "done", !.kind = "GET", !.clave = clave,
                             !.resp = Forbidden(variant)]
       ELSE [IdleSlot EXCEPT !.pc = "wait", !.kind = "GET", !.clave = clave,
                             !.calls = 1, !.booted = StartupComplete,
                             !.after = latest]]
  /\ UNCHANGED <<client, variant, secret, proc, conn, table, clock, issued, store, n201, latest>>

\* Mensaje.find().sort({ fecha: -1 }) / SELECT * ... ORDER BY fecha DESC over
\* the rows as the engine scans them.
ListAll(rows, scan) == OrderByFechaDesc(Scanned(rows, scan))

\* The Storage Backend answers the listing.  after keeps the id of the POST
\* answered before this GET arrived only if no insert was written since.
ListOk(s) ==
  /\ Running /\ slots[s].pc = "wait" /\ slots[s].kind = "GET"
  /\ conn = "connected" /\ TableUsable
  /\ \E scan \in Scans(Len(store)) :
       slots' = [slots EXCEPT ![s].pc = "ready",
                              ![s].result = Result(TRUE, 0, 0, ListAll(store, scan), ""),
                              ![s].after = IF latest = slots[s].after THEN latest ELSE 0]
  /\ UNCHANGED <<client, variant, secret, proc, conn, table, clock, issued, store, n201, latest>>

\* The error a failing listing reports.
ListError ==
  IF variant = "tabular" /\ ~TableUsable THEN ErrNoTable
  ELSE IF conn # "connected" THEN ErrBuffering ELSE ErrConnLost

\* The listing fails.
ListFail(s) ==
  /\ Running /\ slots[s].pc = "wait" /\ slots[s].kind = "GET"
  /\ variant = "tabular" => conn = "connected"
  /\ slots' = [slots EXCEPT ![s].pc = "ready", ![s].after = 0,
                            ![s].result = Result(FALSE, 0, 0, <<>>, ListError)]
  /\ UNCHANGED <<client, variant, secret, proc, conn, table, clock, issued, store, n201, latest>>

\* The response the GET handler sends once the listing has settled.
GetSettled(r) == IF variant = "document" THEN DocFindSettled(r) ELSE TabListCallback(r)

\* The handler resumes after the listing and answers.
GetCallback(s) ==
  /\ Running /\ slots[s].pc = "ready" /\ slots[s].kind = "GET"
  /\ slots' = [slots EXCEPT ![s].pc = "done", ![s].resp = GetSettled(slots[s].result)]
  /\ UNCHANGED <<client, variant, secret, proc, conn, table, clock, issued, store, n201, latest>>

\* The answered request is over; the slot takes the next one.
Release(s) ==
  /\ Running /\ slots[s].pc = "done"
  /\ slots' = [slots EXCEPT ![s] = IdleSlot]
  /\ UNCHANGED <<client, variant, secret, proc, conn, table, clock, issued, store, n201, latest>>

\* ----------------------------------------------------------- specifications
Startup == ConnectOk \/ ConnectFail \/ CreateTableOk \/ CreateTableFail

\* Concurrent requests over a few bodies and credentials.
Next ==
  \/ Startup
  \/ Tick
  \/ \E s \in Slots :
       \/ \E b \in CoreBodies : PostHandle(s, b)
       \/ InsertOk(s)
       \/ InsertFail(s)
       \/ PostCallback(s)
       \/ \E c \in Claves : GetHandle(s, c)
       \/ ListOk(s)
       \/ ListFail(s)
       \/ GetCallback(s)
       \/ Release(s)

Spec == Init /\ [][Next]_vars

\* One request of any shape against the starting server.
NextShapes ==
  \/ Startup
  \/ \E b \in AllBodies : PostHandle(1, b)
  \/ InsertOk(1)
  \/ InsertFail(1)
  \/ PostCallback(1)

SpecShapes == Init /\ [][NextShapes]_vars

\* The bodies of the concurrent POSTs: two valid ones that differ, one blank.
PostBodies == CoreBodies \cup {Body(Str(<<"b">>), Str(<<"A">>), Str(<<"b", " ">>))}

\* Concurrent POST requests only.
NextPosts ==
  \/ Startup
  \/ Tick
  \/ \E s \in Slots :
       \/ \E b \in PostBodies : PostHandle(s, b)
       \/ InsertOk(s)
       \/ InsertFail(s)
       \/ PostCallback(s)
       \/ Release(s)

SpecPosts == Init /\ [][NextPosts]_vars

\* ------------------------------------------------------------------- client
\* The browser side: src/frontend/public/js/app.js, and the variant of the
\* same handler in src/README.md that disables the submit button while the
\* request is in flight.

\* Minimum length of the trimmed mensaje.
MinMensajeLen == 10

\* A character of the class [^\s@].
IsLocalChar(c) == ~IsSpace(c) /\ c # "@"

\* /^[^\s@]+@[^\s@]+\.[^\s@]+$/.test(email): an "@" at i and a "." at j with
\* one or more characters of the class before, between and after them.
validarEmail(email) ==
  \E i \in 1..Len(email) : \E j \in 1..Len(email) :
    /\ 1 < i /\ i + 1 < j /\ j < Len(email)
    /\ email[i] = "@" /\ email[j] = "."
    /\ \A k \in (1..Len(email)) \ {i, j} : IsLocalChar(email[k])

\* errores.push(...) when cond holds.
Push(errores, cond, e) == IF cond THEN Append(errores, e) ELSE errores

\* A validator that measures the mensaje as typed.
ClientValidarDatosRawLength(datos) ==
  LET e1 == Push(<<>>, Trim(datos.nombre) = <<>>, "El nombre es requerido")
      e2 == IF Trim(datos.email) = <<>>
            THEN Append(e1, "El email es requerido")
            ELSE Push(e1, ~validarEmail(datos.email), "El email no es valido")
      e3 == IF Trim(datos.mensaje) = <<>>
            THEN Append(e2, "El mensaje es requerido")
            ELSE Push(e2, Len(datos.mensaje) < MinMensajeLen,
                      "El mensaje debe tener al menos 10 caracteres")
  IN  [valido |-> e3 = <<>>, errores |-> e3]

\* validarDatos(datos) of the client: !datos.x || datos.x.trim() === "" is
\* "blank after trimming" for a string; the email pattern is tested on the
\* email as typed, the length on the trimmed mensaje.
ClientValidarDatos(datos) ==
  LET e1 == Push(<<>>, Trim(datos.nombre) = <<>>, "El nombre es requerido")
      e2 == IF Trim(datos.email) = <<>>
            THEN Append(e1, "El email es requerido")
            ELSE Push(e1, ~validarEmail(datos.email), "El email no es valido")
      e3 == IF Trim(datos.mensaje) = <<>>
            THEN Append(e2, "El mensaje es requerido")
            ELSE Push(e2, Len(Trim(datos.mensaje)) < MinMensajeLen,
                      "El mensaje debe tener al menos 10 caracteres")
  IN  [valido |-> e3 = <<>>, errores |-> e3]

\* What the user may have typed.
ClientNombres == {<<>>, <<" ">>, <<" ", "a">>}
ClientEmails ==
  {<<>>, <<" ">>,
   <<"a", "@", "b", ".", "c">>, <<"a", ".", "a", "@", "b", ".", "c", ".", "c">>,
   <<"a", "@", "b">>, <<"a", "b", ".", "c">>, <<"@", "b", ".", "c">>,
   <<"a", "@", "b", ".">>, <<"a", "@", ".", "c">>, <<"a", ".", "b", "@", "c">>,
   <<" ", "a", "@", "b", ".", "c">>, <<"a", "@", "b", ".", "c", " ">>,
   <<"a", " ", "a", "@", "b", ".", "c">>, <<"a", "@", "@", "b", ".", "c">>,
   <<"a", "@", "b", "@", "b", ".", "c">>}
ClientMensajes ==
  {<<>>, [i \in 1..MinMensajeLen |-> " "],
   Long(MinMensajeLen - 1), Long(MinMensajeLen),
   <<" ">> \o Long(MinMensajeLen - 1) \o <<" ">>,
   <<" ">> \o Long(MinMensajeLen) \o <<" ">>}
ClientDatos ==
  {Datos(n, e, m) : n \in ClientNombres, e \in ClientEmails, m \in ClientMensajes}

\* The submit button of the form, if it has one, and its text.
Enviando == "Enviando... (Espere unos segundos)"
Botones ==
  {NoBoton} \cup
  {[present |-> TRUE, disabled |-> FALSE, innerText |-> x] : x \in {"Enviar", "Contactar"}}

\* What fetch may resolve with: the status, and a body that respuesta.json()
\* cannot parse, parses to null, or parses to an object with or without error.
Statuses == {201, 400, 500}
Bodies ==
  {[t |-> "unparsable", error |-> ""], [t |-> "null", error |-> ""],
   [t |-> "object", error |-> ""], [t |-> "object", error |-> "Error al guardar"]}

\* mostrarMensaje(texto, tipo)
Mostrar(c, tipo, texto) ==
  [c EXCEPT !.shown = [tipo |-> tipo, errores |-> <<>>, texto |-> texto]]

\* The texts of the two variants of the handler.
TextoAbort(v) ==
  IF v = "app" THEN "La solicitud tardo demasiado"
  ELSE "El servidor esta despertando"
TextoConexion(v) ==
  IF v = "app" THEN "No se pudo conectar con el servidor"
  ELSE "No se pudo conectar con el servidor en la nube"
TextoServidor == "Ocurrio un error al enviar el mensaje"
TextoExito == "Mensaje enviado con exito"

\* catch (error): one message for AbortError, another for anything else.
Catch(c, name) ==
  Mostrar(c, "error",
          IF name = "AbortError" THEN TextoAbort(c.version) ELSE TextoConexion(c.version))

\* The end of manejarEnvioFormulario.  app.js has no finally block.  The
\* finally block of the README variant looks the button up again and, if there
\* is one, evaluates textoOriginal || "Enviar": textoOriginal is a const of
\* the try block and is not in scope here, so reading it throws a
\* ReferenceError before innerText or disabled is assigned.
Finally(c) ==
  IF c.version = "readme" /\ c.boton.present
  THEN [c EXCEPT !.pc = "finished", !.outcome = "threw"]
  ELSE [c EXCEPT !.pc = "finished", !.outcome = "returned"]

ServerVars == <<variant, secret, proc, conn, table, clock, issued, store, slots, n201, latest>>

\* DOMContentLoaded: without #contactForm nothing is registered; otherwise the
\* form listens for submit.  v tells which variant of the script the page runs.
DOMContentLoaded(v, hasForm, boton) ==
  /\ client.pc = "unloaded"
  /\ client' = IF hasForm
               THEN [client EXCEPT !.pc = "idle", !.version = v, !.boton = boton,
                                   !.html = boton.innerText]
               ELSE [client EXCEPT !.pc = "noform", !.version = v]
  /\ UNCHANGED ServerVars

\* The form can be submitted: no invocation is in flight and the submit
\* button, if any, is not disabled.
CanSubmit ==
  /\ client.pc \in {"idle", "finished"}
  /\ ~(client.boton.present /\ client.boton.disabled)

\* manejarEnvioFormulario up to its first await: read the fields, validate;
\* invalid: show the errors and return; valid: (README variant) remember the
\* button text, show "Enviando..." and disable it, then call fetch.
ManejarEnvioFormulario(datos) ==
  /\ CanSubmit
  /\ LET validacion == ClientValidarDatos(datos)
         c == [client EXCEPT !.campos = datos, !.datos = datos,
                             !.respuesta = NoRespuesta, !.textoOriginal = ""]
         feedback == c.version = "readme" /\ c.boton.present
     IN  client' =
           IF ~validacion.valido
           THEN [c EXCEPT !.pc = "finished", !.fetched = FALSE, !.outcome = "returned",
                          !.shown = [tipo |-> "error", errores |-> validacion.errores,
                                     texto |-> "Errores encontrados"]]
           ELSE [c EXCEPT !.pc = "fetching", !.fetched = TRUE, !.outcome = "none",
                          !.shown = NoShown,
                          !.textoOriginal = IF feedback THEN c.boton.innerText ELSE "",
                          !.boton = IF feedback
                                    THEN [c.boton EXCEPT !.innerText = Enviando,
                                                         !.disabled = TRUE]
                                    ELSE c.boton]
  /\ UNCHANGED ServerVars

\* fetch resolves (the timer is cleared): await respuesta.json() is next.
FetchResolved(status, body) ==
  /\ client.pc = "fetching"
  /\ client' = [client EXCEPT !.pc = "parsing",
                              !.respuesta = [status |-> status, body |-> body]]
  /\ UNCHANGED ServerVars

\* fetch rejects: AbortError when the timer fired controller.abort(), a
\* TypeError when the network failed; catch, then the end of the handler.
FetchRejected(name) ==
  /\ client.pc = "fetching"
  /\ client' = Finally(Catch(client, name))
  /\ UNCHANGED ServerVars

\* respuesta.ok
Ok(respuesta) == respuesta.status >= 200 /\ respuesta.status <= 299

\* respuesta.json() settles: a body that does not parse rejects (catch);
\* respuesta.ok shows the success and resets the form; otherwise
\* resultado.error || default is shown, and reading .error of null throws
\* (catch).  Then the end of the handler.
JsonSettled ==
  /\ client.pc = "parsing"
  /\ LET r == client.respuesta
     IN  client' =
           IF r.body.t = "unparsable" THEN Finally(Catch(client, "SyntaxError"))
           ELSE IF Ok(r)
           THEN Finally([Mostrar(client, "exito", TextoExito) EXCEPT !.campos = EmptyDatos])
           ELSE IF r.body.t = "null" THEN Finally(Catch(client, "TypeError"))
           ELSE Finally(Mostrar(client, "error",
                                IF r.body.error # "" THEN r.body.error ELSE TextoServidor))
  /\ UNCHANGED ServerVars

\* The page is loaded again.
Reload ==
  /\ client.pc \in {"noform", "finished"}
  /\ client' = Unloaded
  /\ UNCHANGED ServerVars

\* The browser alone; the server is what FetchResolved and FetchRejected
\* draw their outcomes from.
InitClient ==
  /\ Init
  /\ variant = "document" /\ secret = Undefined /\ proc = "running"

NextClient ==
  \/ \E v \in {"app", "readme"} : \E hasForm \in BOOLEAN : \E boton \in Botones :
       DOMContentLoaded(v, hasForm, boton)
  \/ \E datos \in ClientDatos : ManejarEnvioFormulario(datos)
  \/ \E status \in Statuses : \E body \in Bodies : FetchResolved(status, body)
  \/ \E name \in {"AbortError", "TypeError"} : FetchRejected(name)
  \/ JsonSettled
  \/ Reload

SpecClient == InitClient /\ [][NextClient]_vars

\* ------------------------------------------------------------------- claims
IsPost(s) == slots[s].kind = "POST"
IsGet(s) == slots[s].kind = "GET"

\* Absent, null, empty or white space only.
Blank(v) == IsNullish(v) \/ (IsString(v) /\ \A i \in 1..Len(v.s) : IsSpace(v.s[i]))
AnyBlank(b) == Blank(b.nombre) \/ Blank(b.email) \/ Blank(b.mensaje)

\* C1: a POST with a field that is absent, null, empty or white space only is
\* answered 400 and issues no insert.
C1_BlankFieldIs400 ==
  \A s \in Slots :
    (IsPost(s) /\ AnyBlank(slots[s].body)) =>
      (slots[s].pc = "done" /\ slots[s].resp.status = 400 /\ slots[s].calls = 0)

\* C2: a GET whose clave is absent, empty or different from the configured
\* secret is answered 403 and issues no storage read, whatever the secret.
C2_BadClaveIs403 ==
  \A s \in Slots :
    (IsGet(s) /\ (slots[s].clave \in {Undefined, Str(<<>>)} \/ slots[s].clave # secret)) =>
      (slots[s].pc = "done" /\ slots[s].resp.status = 403 /\ slots[s].calls = 0)

\* C3: the persisted Submissions are as many as the POST requests answered
\* 201, counting a written insert whose answer is still to be sent; a request
\* answered 400 or 500 wrote nothing.
C3_OneSubmissionPer201 ==
  /\ Len(store) = n201 + Cardinality({s \in Slots : IsPost(s) /\ slots[s].pc = "ready"
                                                   /\ slots[s].result.ok})
  /\ \A s \in Slots :
       (IsPost(s) /\ slots[s].pc = "done" /\ slots[s].resp.status \in {400, 500}) =>
         ~slots[s].result.ok

\* Reached: a Submission answered 201 and another POST answered 500 after its
\* insert failed.
C3_Witness ==
  /\ n201 >= 1 /\ Len(store) = n201
  /\ \E s \in Slots : IsPost(s) /\ slots[s].pc = "done" /\ slots[s].calls = 1
                      /\ slots[s].resp.status = 500

\* stored is raw without its leading and trailing white space.
IsTrimOf(stored, raw) ==
  /\ stored # <<>> => (~IsSpace(stored[1]) /\ ~IsSpace(stored[Len(stored)]))
  /\ \E i \in 0..Len(raw) :
       /\ i + Len(stored) <= Len(raw)
       /\ SubSeq(raw, i + 1, i + Len(stored)) = stored
       /\ \A k \in 1..Len(raw) : (k <= i \/ k > i + Len(stored)) => IsSpace(raw[k])

\* C4 (as claimed): every persisted name, email and message is exactly the
\* trimmed request value, in both variants.
C4_StoredIsTrimmedInput ==
  \A i \in 1..Len(store) :
    /\ IsTrimOf(store[i].nombre, store[i].req.nombre.s)
    /\ IsTrimOf(store[i].email, store[i].req.email.s)
    /\ IsTrimOf(store[i].mensaje, store[i].req.mensaje.s)

\* C4 (amended): the persisted name and message are the trimmed request
\* values; the persisted email is the trimmed request value in the tabular
\* variant and the trimmed request value in lower case in the document one.
C4_StoredIsTrimmedEmailLowered ==
  \A i \in 1..Len(store) :
    /\ IsTrimOf(store[i].nombre, store[i].req.nombre.s)
    /\ IsTrimOf(store[i].mensaje, store[i].req.mensaje.s)
    /\ IF variant = "document"
       THEN IsTrimOf(store[i].email, ToLowerCase(store[i].req.email.s))
       ELSE IsTrimOf(store[i].email, store[i].req.email.s)

\* Reached: a row of the tabular variant whose name was trimmed and whose
\* message is longer than the name limit.
C4_Witness ==
  \E i \in 1..Len(store) :
    /\ variant = "tabular"
    /\ store[i].nombre # store[i].req.nombre.s
    /\ Len(store[i].mensaje) > NombreMaxLength

SortedDesc(rows) == \A i \in 1..(Len(rows) - 1) : rows[i].fecha >= rows[i + 1].fecha

\* C5: the list an authorized GET returns is ordered by creation time,
\* newest first.
C5_ListingSortedDesc ==
  \A s \in Slots :
    (IsGet(s) /\ slots[s].pc = "done" /\ slots[s].resp.status = 200) =>
      SortedDesc(slots[s].resp.data)

\* Reached: a listing of two Submissions of different times, returned in
\* the reverse of the order they were written in.
C5_Witness ==
  \E s \in Slots :
    /\ IsGet(s) /\ slots[s].pc = "done" /\ slots[s].resp.status = 200
    /\ Len(slots[s].resp.data) = 2
    /\ slots[s].resp.data[1].fecha > slots[s].resp.data[2].fecha
    /\ Len(store) >= 2 /\ store[1].fecha < store[2].fecha

\* The listing of a GET that arrived after a POST was answered 201, with no
\* insert written between that answer and the read.
ListedAfterPost(s) ==
  IsGet(s) /\ slots[s].pc \in {"ready", "done"} /\ slots[s].result.ok /\ slots[s].after # 0

\* No other request has an insert pending or written and not yet answered.
NoInsertInFlight(s) ==
  \A o \in Slots \ {s} : ~(IsPost(o) /\ slots[o].pc \in {"wait", "ready"})

\* C6 (as claimed): such a listing starts with the Submission just created,
\* whatever was inserted earlier; read here with every other insert over.
C6_CreatedIsFirst ==
  \A s \in Slots :
    (ListedAfterPost(s) /\ NoInsertInFlight(s)) =>
      /\ slots[s].result.rows # <<>>
      /\ slots[s].result.rows[1].id = slots[s].after
      /\ slots[s].result.rows[1].fecha >= 1

\* C6 (amended): such a listing contains the Submission just created, with
\* the id the POST returned and a creation time that is set and not in the
\* future; it is the first element when its creation time is greater than
\* that of every other Submission listed.
C6_CreatedIsListed ==
  \A s \in Slots :
    ListedAfterPost(s) =>
      LET rows == slots[s].result.rows IN
      \E i \in 1..Len(rows) :
        /\ rows[i].id = slots[s].after
        /\ rows[i].fecha >= 1 /\ rows[i].fecha <= clock
        /\ (\A j \in 1..Len(rows) : j # i => rows[j].fecha < rows[i].fecha) => i = 1

\* Reached: such a listing of two Submissions, the one just created first.
C6_Witness ==
  \E s \in Slots :
    /\ ListedAfterPost(s) /\ slots[s].pc = "done"
    /\ Len(slots[s].resp.data) = 2
    /\ slots[s].resp.data[1].id = slots[s].after
    /\ slots[s].resp.data[1].fecha > slots[s].resp.data[2].fecha

\* The fixed message of the 500 answered after a storage failure.
GenericError(s) ==
  IF variant = "document"
  THEN (IF IsPost(s) THEN "No se pudo procesar la solicitud" ELSE "Error en la consulta")
  ELSE (IF IsPost(s) THEN "Error interno del servidor. No se pudo guardar el mensaje."
        ELSE "Error interno del servidor.")

StorageFailed(s) == slots[s].pc = "done" /\ slots[s].calls > 0 /\ ~slots[s].result.ok

\* C7: after a storage failure the answer is 500 with the fixed message,
\* nothing of the error, and the handler issued one storage operation only.
C7_StorageFailureIsGeneric500 ==
  \A s \in Slots :
    /\ slots[s].calls <= 1
    /\ StorageFailed(s) =>
         /\ slots[s].result.err \in ErrDetails
         /\ slots[s].resp.status = 500
         /\ slots[s].resp.error = GenericError(s)
         /\ slots[s].resp.error # slots[s].result.err
         /\ slots[s].resp.code # slots[s].result.err
         /\ slots[s].resp.data = <<>>

\* Reached: a POST and a GET both answered after their storage operation
\* failed.
C7_Witness ==
  \E s, g \in Slots :
    /\ IsPost(s) /\ StorageFailed(s) /\ slots[s].resp.status = 500
    /\ IsGet(g) /\ StorageFailed(g) /\ slots[g].resp.status = 500

\* C8: a POST is answered 500 only after an insert was attempted and failed;
\* a request rejected without a storage attempt is answered 400.
C8_NoStorageAttemptIs400 ==
  \A s \in Slots :
    (IsPost(s) /\ slots[s].pc = "done") =>
      /\ slots[s].resp.status = 500 => (slots[s].calls = 1 /\ ~slots[s].result.ok)
      /\ slots[s].calls = 0 => slots[s].resp.status = 400

\* C9: once the connection attempt has failed the process has terminated, so
\* the server accepts nothing.
C9_FailedConnectionExits == conn = "failed" => proc = "exited"

\* C10: every storage operation a handler issues is issued after startup
\* has completed.
C10_StorageOnlyAfterStartup ==
  \A s \in Slots : slots[s].calls > 0 => slots[s].booted


\* C11: in every step the Submissions persisted before are still there,
\* unchanged and in place; a step that adds one adds exactly one, and it is
\* the insert of a POST that passed validation; no GET slot moves in it.
C11_StoreOnlyGrows ==
  [][ /\ Len(store') >= Len(store)
      /\ SubSeq(store', 1, Len(store)) = store
      /\ store' # store =>
           /\ Len(store') = Len(store) + 1
           /\ \E s \in Slots :
                /\ IsPost(s) /\ slots[s].pc = "wait" /\ slots'[s].pc = "ready"
                /\ slots'[s].result.ok
                /\ ~AnyBlank(slots[s].body)
                /\ store'[Len(store')].req = slots[s].body
                /\ store'[Len(store')].id = slots'[s].result.id
           /\ \A g \in Slots : IsGet(g) => slots'[g] = slots[g] ]_vars

\* Reached: two Submissions persisted and a listing of both answered while
\* a GET of the other slot was refused.
C11_Witness ==
  /\ Len(store) = 2
  /\ \E s, g \in Slots :
       /\ IsGet(s) /\ slots[s].pc = "done" /\ slots[s].resp.status = 200
       /\ Len(slots[s].resp.data) = 2
       /\ IsGet(g) /\ slots[g].pc = "done" /\ slots[g].resp.status = 403


\* The three fields are strings that are not blank.
ValidFields(b) ==
  \A v \in {b.nombre, b.email, b.mensaje} : IsString(v) /\ ~Blank(v)

\* A POST of the document variant with valid fields that was answered, its
\* insert not having failed for lack of a connection.
DocPostWithStorage(s) ==
  /\ variant = "document" /\ IsPost(s) /\ slots[s].pc = "done"
  /\ ValidFields(slots[s].body)
  /\ slots[s].result.err \notin {ErrBuffering, ErrConnLost}

\* The Submission of slot s is in the store under the id answered.
PersistedFor(s) ==
  \E i \in 1..Len(store) :
    /\ store[i].id = slots[s].resp.id
    /\ store[i].req = slots[s].body

\* C12 (as claimed): in the document variant, with storage available, a POST
\* with valid fields is answered 201 and persisted whatever the length of
\* the name.
C12_NameLengthUnbounded ==
  \A s \in Slots :
    DocPostWithStorage(s) => (slots[s].resp.status = 201 /\ PersistedFor(s))

\* C12 (amended): in the document variant, with storage available, a POST
\* with valid fields is answered 201 and persisted when the trimmed name has
\* at most 100 characters, and is answered 500 with nothing persisted when
\* it has more.
C12_NameLengthAtMost100 ==
  \A s \in Slots :
    DocPostWithStorage(s) =>
      IF Len(slots[s].op.nombre) <= NombreMaxLength
      THEN slots[s].resp.status = 201 /\ PersistedFor(s)
      ELSE slots[s].resp.status = 500 /\ store = <<>>

\* Reached: a name of exactly 100 characters persisted by the document
\* variant.
C12_Witness ==
  \E s \in Slots :
    /\ DocPostWithStorage(s) /\ slots[s].resp.status = 201
    /\ Len(slots[s].op.nombre) = NombreMaxLength


\* The row holds the trimmed fields of body b (email in lower case in the
\* document variant).
HoldsFieldsOf(row, b) ==
  /\ row.req = b
  /\ IsTrimOf(row.nombre, b.nombre.s)
  /\ IsTrimOf(row.mensaje, b.mensaje.s)
  /\ IsTrimOf(row.email, IF variant = "document" THEN ToLowerCase(b.email.s) ELSE b.email.s)

SentAndFinished == client.pc = "finished" /\ client.fetched

\* C14: in the variant of the handler that disables the submit button while
\* sending, once the handler has finished after validation passed (2xx,
\* non-2xx, abort, network error, unparsable body) the button is enabled
\* again and shows the text it was loaded with.
C14_ButtonRestored ==
  (client.version = "readme" /\ client.boton.present /\ SentAndFinished)
    => (~client.boton.disabled /\ client.boton.innerText = client.html)


\* local@domain.tld with no whitespace: exactly one "@", not in first place,
\* and a "." after it that neither follows it directly nor ends the text.
Positions(s, c) == {i \in 1..Len(s) : s[i] = c}
EmailShape(e) ==
  /\ Positions(e, " ") = {}
  /\ Cardinality(Positions(e, "@")) = 1
  /\ \A a \in Positions(e, "@") :
       a > 1 /\ \E d \in Positions(e, ".") : d > a + 1 /\ d < Len(e)
Sendable(datos) ==
  /\ Trim(datos.nombre) # <<>>
  /\ Trim(datos.email) # <<>> /\ EmailShape(datos.email)
  /\ Len(Trim(datos.mensaje)) >= MinMensajeLen

\* C15: the client handler calls fetch only if nombre is non-empty after
\* trimming, email is non-empty after trimming and has the shape
\* local@domain.tld with no whitespace, and the trimmed mensaje has at least
\* 10 characters; otherwise it shows the collected errors, returns, and no
\* request is made.
C15_SendsOnlyIfValid ==
  client.pc \in {"fetching", "parsing", "finished"} =>
    /\ client.fetched <=> Sendable(client.datos)
    /\ ~Sendable(client.datos) =>
         /\ client.pc = "finished" /\ client.outcome = "returned"
         /\ client.shown.tipo = "error" /\ client.shown.errores # <<>>
         /\ client.respuesta = NoRespuesta

\* A mensaje of exactly 10 characters once trimmed was sent and answered.
C15_Witness ==
  /\ client.version = "app" /\ SentAndFinished
  /\ Len(Trim(client.datos.mensaje)) = MinMensajeLen
  /\ Len(client.datos.mensaje) > MinMensajeLen
  /\ client.shown.tipo = "exito"

====
